---- MODULE Spec2Model ----
(***************************************************************************)
(* Model of the generate -> execute -> diagnose -> repair core of NL-STV:   *)
(*   - CodeExecutor._clean_code  (core/execution/executor.py)              *)
(*   - CodeExecutor.execute      (core/execution/executor.py)              *)
(*   - handle_query              (app.py)                                  *)
(*                                                                         *)
(* Text is modelled as a sequence of tokens.  The token "FENCE" is the     *)
(* markdown fence (three backquotes), "python" / "Python" are the language *)
(* word in two letter cases, "a" and "b" are ordinary non-blank            *)
(* characters, " " is a space and "\n" a line break.                       *)
(***************************************************************************)
EXTENDS Integers, Sequences, FiniteSets, TLC

VARIABLES
    \* ---- _clean_code ----
    parts,          \* how the reply was put together (<<>> for a free text)
    text,           \* the reply handed to _clean_code
    cleaned,        \* the value _clean_code returned
    clean_pc,       \* "input" before the call, "done" after it
    rewrap,         \* the first extraction, once its result was re-wrapped
    \* ---- CodeExecutor.execute ----
    snippet,        \* the cleaned code of the last invocation
    data_context,   \* the bindings of the last invocation
    outcome,        \* how the last invocation was left, and with what
    sys_stdout,     \* the stream sys.stdout refers to: 0 is the host's
                    \* stream, n > 0 the StringIO made by invocation n
    stdout_before,  \* sys.stdout right before the last invocation
    calls,          \* invocations of execute so far
    context_after,  \* the caller's bindings mapping after the last invocation
    evals,          \* how many times the last invocation ran exec on the
                    \* snippet
    thread_pc,      \* where each script thread stands inside execute
    old_stdout,     \* the local old_stdout of each thread's invocation
    thread_code,    \* the snippet each thread's invocation was given
    \* ---- handle_query ----
    turn_pc,        \* where the turn stands: "idle", "generating",
                    \* "executing", "repairing", "success", "exhausted",
                    \* "system_error" (a model call raised), "crashed"
                    \* (execute raised)
    code,           \* the current candidate
    res,            \* the ExecutionResult of the last execution of the turn
    count,          \* the retry counter
    messages,       \* st.session_state.messages
    last_generated_code,    \* st.session_state.last_generated_code
    request,        \* the last request sent to the model
    shown,          \* what the assistant's chat message of the turn displays
    execs,          \* executions performed in this turn
    failures,       \* executions of this turn that reported failure
    turns,          \* turns started so far
    \* ---- sanitize_var_name ----
    file_name,      \* the file name handed to sanitize_var_name
    var_name,       \* the identifier it returned
    name_pc,        \* "input" before the call, "done" after it
    \* ---- main: the session ----
    uploaded_filenames,     \* st.session_state.uploaded_filenames (the
                            \* sorted list of names, as a set)
    last_use_full,          \* st.session_state.last_use_full
    data_summaries,         \* st.session_state.data_summaries
    session_context         \* data_context of the last script run, as the
                            \* sequence of its (identifier, file) items

clean_vars == <<parts, text, cleaned, clean_pc, rewrap>>
exec_vars == <<snippet, data_context, outcome, sys_stdout, stdout_before, calls,
               context_after, evals, thread_pc, old_stdout, thread_code>>

turn_vars == <<turn_pc, code, res, count, messages, last_generated_code,
               request, shown, execs, failures, turns>>

sess_vars == <<file_name, var_name, name_pc, uploaded_filenames,
               last_use_full, data_summaries, session_context>>

vars == <<parts, text, cleaned, clean_pc, rewrap,
          snippet, data_context, outcome, sys_stdout, stdout_before, calls,
          context_after, evals, thread_pc, old_stdout, thread_code,
          turn_pc, code, res, count, messages, last_generated_code,
          request, shown, execs, failures, turns,
          file_name, var_name, name_pc, uploaded_filenames,
          last_use_full, data_summaries, session_context>>

-----------------------------------------------------------------------------
(* Bounds *)
MaxLen == 5         \* longest free reply, in tokens
MaxLines == 3       \* most lines in the body of a generated region
MaxStmts == 2       \* most top-level statements of a snippet
MaxCalls == 2       \* most invocations of execute in one run
MaxTurns == 2       \* most turns of one session
MaxNameLen == 4     \* longest file name handed to sanitize_var_name
MaxFiles == 2       \* most files uploaded at a time
MaxThreads == 2     \* script threads inside execute at the same time

-----------------------------------------------------------------------------
(* Tokens *)
FENCE == "FENCE"
NL == "\n"
SP == " "
Alphabet == {FENCE, "python", "Python", "a", SP, NL}
Whitespace == {SP, NL, "\t"}

Min(S) == CHOOSE x \in S : \A y \in S : x <= y

Last(s) == s[Len(s)]

\* re.IGNORECASE applied to the literal "python" of pattern_python
IsPython(tok) == tok \in {"python", "Python"}

\* first position k >= from with s[k] = tok, 0 if there is none
FirstIndex(s, from, tok) ==
    LET S == {k \in from..Len(s) : s[k] = tok}
    IN  IF S = {} THEN 0 ELSE Min(S)

\* re.findall(pattern, s, re.DOTALL | re.IGNORECASE) scanning from position i.
\*   py = TRUE :  FENCE python (?:[^\n]*\n) (.*?) FENCE
\*   py = FALSE:  FENCE (?:[^\n]*\n) (.*?) FENCE
\* [^\n]*\n runs to the first line break after the opening fence, the lazy
\* group (.*?) to the first fence after that line break; matches do not
\* overlap, and a position where the pattern fails is skipped.
\* re.findall as it would be with patterns that do not skip the rest of the
\* opening line: FENCE python (.*?) FENCE and FENCE (.*?) FENCE
RECURSIVE FindAll_keep_label(_, _, _)
FindAll_keep_label(s, i, py) ==
    IF i > Len(s) THEN <<>>
    ELSE
        LET opens == /\ s[i] = FENCE
                     /\ (py => (i + 1 <= Len(s) /\ IsPython(s[i + 1])))
            j == IF py THEN i + 1 ELSE i
            k == IF opens THEN FirstIndex(s, j + 1, FENCE) ELSE 0
        IN  IF k # 0
            THEN <<SubSeq(s, j + 1, k - 1)>> \o FindAll_keep_label(s, k + 1, py)
            ELSE FindAll_keep_label(s, i + 1, py)

RECURSIVE FindAll(_, _, _)
FindAll(s, i, py) ==
    IF i > Len(s) THEN <<>>
    ELSE
        LET opens == /\ s[i] = FENCE
                     /\ (py => (i + 1 <= Len(s) /\ IsPython(s[i + 1])))
            j == IF opens THEN FirstIndex(s, IF py THEN i + 2 ELSE i + 1, NL)
                 ELSE 0
            k == IF j # 0 THEN FirstIndex(s, j + 1, FENCE) ELSE 0
        IN  IF k # 0
            THEN <<SubSeq(s, j + 1, k - 1)>> \o FindAll(s, k + 1, py)
            ELSE FindAll(s, i + 1, py)

\* str.split("\n")
RECURSIVE SplitLines(_)
SplitLines(s) ==
    LET k == FirstIndex(s, 1, NL)
    IN  IF k = 0 THEN <<s>>
        ELSE <<SubSeq(s, 1, k - 1)>> \o SplitLines(SubSeq(s, k + 1, Len(s)))

RECURSIVE JoinLines(_)
JoinLines(ls) ==
    IF Len(ls) = 0 THEN <<>>
    ELSE IF Len(ls) = 1 THEN ls[1]
    ELSE ls[1] \o <<NL>> \o JoinLines(Tail(ls))

IsBlankLine(l) == \A i \in 1..Len(l) : l[i] \in {SP, "\t"}

\* the run of spaces and tabs a line starts with
LeadingWs(l) ==
    LET S == {k \in 1..Len(l) : l[k] \notin {SP, "\t"}}
    IN  IF S = {} THEN l ELSE SubSeq(l, 1, Min(S) - 1)

IsPrefix(p, s) == Len(p) <= Len(s) /\ SubSeq(s, 1, Len(p)) = p

\* longest common prefix of two indents (textwrap.dedent's inner loop)
CommonPrefix(m, ind) ==
    LET D == {k \in 1..Min({Len(m), Len(ind)}) : m[k] # ind[k]}
    IN  IF D = {} THEN SubSeq(m, 1, Min({Len(m), Len(ind)}))
        ELSE SubSeq(m, 1, Min(D) - 1)

\* textwrap.dedent's margin: None is modelled by the flag have
RECURSIVE Margin(_, _, _)
Margin(ls, have, m) ==
    IF Len(ls) = 0 THEN m
    ELSE IF IsBlankLine(ls[1]) THEN Margin(Tail(ls), have, m)
    ELSE
        LET ind == LeadingWs(ls[1])
        IN  IF ~have THEN Margin(Tail(ls), TRUE, ind)
            ELSE IF IsPrefix(m, ind) THEN Margin(Tail(ls), TRUE, m)
            ELSE IF IsPrefix(ind, m) THEN Margin(Tail(ls), TRUE, ind)
            ELSE Margin(Tail(ls), TRUE, CommonPrefix(m, ind))

\* dedent as it would be if it stripped every line's own indentation
dedent_lstrip(s) ==
    LET ls == SplitLines(s)
    IN  JoinLines([i \in 1..Len(ls) |->
            SubSeq(ls[i], Len(LeadingWs(ls[i])) + 1, Len(ls[i]))])

\* textwrap.dedent: blank lines are emptied, the common margin of the other
\* lines is removed from each of them
dedent(s) ==
    LET ls == SplitLines(s)
        norm == [i \in 1..Len(ls) |-> IF IsBlankLine(ls[i]) THEN <<>> ELSE ls[i]]
        m == Margin(norm, FALSE, <<>>)
        cut == [i \in 1..Len(norm) |->
                   IF IsPrefix(m, norm[i])
                   THEN SubSeq(norm[i], Len(m) + 1, Len(norm[i]))
                   ELSE norm[i]]
    IN  JoinLines(cut)

\* str.strip()
strip(s) ==
    LET S == {k \in 1..Len(s) : s[k] \notin Whitespace}
    IN  IF S = {} THEN <<>>
        ELSE SubSeq(s, Min(S), CHOOSE k \in S : \A y \in S : y <= k)

\* _clean_code as it would be with matches[0] in place of matches[-1]
clean_code_first(t) ==
    LET matches == FindAll(t, 1, TRUE)
        generic == FindAll(t, 1, FALSE)
        found == matches # <<>> \/ generic # <<>>
        code_block == IF matches # <<>> THEN matches[1]
                      ELSE IF generic # <<>> THEN generic[1]
                      ELSE <<>>
    IN  IF found /\ code_block # <<>>
        THEN strip(dedent(code_block))
        ELSE strip(dedent(t))

\* _clean_code as it would be with the two patterns tried in the other order
clean_code_generic_first(t) ==
    LET matches == FindAll(t, 1, TRUE)
        generic == FindAll(t, 1, FALSE)
        found == matches # <<>> \/ generic # <<>>
        code_block == IF generic # <<>> THEN Last(generic)
                      ELSE IF matches # <<>> THEN Last(matches)
                      ELSE <<>>
    IN  IF found /\ code_block # <<>>
        THEN strip(dedent(code_block))
        ELSE strip(dedent(t))

\* CodeExecutor._clean_code
clean_code(t) ==
    LET matches == FindAll(t, 1, TRUE)
        generic == FindAll(t, 1, FALSE)
        found == matches # <<>> \/ generic # <<>>
        code_block == IF matches # <<>> THEN Last(matches)
                      ELSE IF generic # <<>> THEN Last(generic)
                      ELSE <<>>
    IN  IF found /\ code_block # <<>>
        THEN strip(dedent(code_block))
        ELSE strip(dedent(t))

-----------------------------------------------------------------------------
(* Replies handed to _clean_code *)

RECURSIVE SeqsUpTo(_, _)
SeqsUpTo(S, n) ==
    IF n = 0 THEN {<<>>}
    ELSE LET R == SeqsUpTo(S, n - 1)
         IN  R \cup {Append(r, x) : r \in {q \in R : Len(q) = n - 1}, x \in S}

FreeTexts == SeqsUpTo(Alphabet, MaxLen)

Spaces(n) == [i \in 1..n |-> SP]

\* A reply put together from prose and delimited regions.  Prose and region
\* bodies hold no fence, a label holds neither a fence nor a line break.
Prose == {<<>>, <<NL>>, <<"a", NL>>, <<"python", NL, "a">>}
Labels == {<<>>, <<"python">>, <<"Python">>, <<"a">>, <<SP, "python">>}
Indents == {0, 4, 8}
LineTexts == {<<>>, <<"a">>}
Lines == [ind : Indents, txt : LineTexts]

RenderLine(l) == Spaces(l.ind) \o l.txt
RenderLines(ls) == JoinLines([i \in 1..Len(ls) |-> RenderLine(ls[i])])

LineSeqs == SeqsUpTo(Lines, MaxLines) \ {<<>>}
SmallBodies(c) == {<<>>, <<SP>>, <<c, NL>>, <<SP, SP, c, NL, SP, SP>>}

ProsePart(b) == [kind |-> "prose", label |-> <<>>, body |-> b, lines |-> <<>>]
BlockPart(lb, b, ls) == [kind |-> "block", label |-> lb, body |-> b, lines |-> ls]

ZeroBlockReplies == {<<ProsePart(p)>> : p \in Prose}
OneBlockReplies ==
    {<<ProsePart(pre), BlockPart(lb, RenderLines(ls), ls), ProsePart(post)>> :
        pre \in Prose, lb \in Labels, ls \in LineSeqs, post \in {<<>>, <<NL>>}}
    \cup
    {<<ProsePart(pre), BlockPart(lb, b, <<>>), ProsePart(post)>> :
        pre \in Prose, lb \in Labels, b \in SmallBodies("a"), post \in {<<>>, <<NL>>}}
TwoBlockReplies ==
    {<<ProsePart(pre), BlockPart(la, a, <<>>), ProsePart(mid),
       BlockPart(lb, b, <<>>), ProsePart(post)>> :
        pre \in Prose, la \in Labels, a \in SmallBodies("a"), mid \in Prose,
        lb \in Labels, b \in SmallBodies("b"), post \in {<<>>, <<NL>>}}

StructuredReplies == ZeroBlockReplies \cup OneBlockReplies \cup TwoBlockReplies

RenderPart(p) ==
    IF p.kind = "prose" THEN p.body
    ELSE <<FENCE>> \o p.label \o <<NL>> \o p.body \o <<FENCE>>

RECURSIVE Flatten(_)
Flatten(ps) ==
    IF Len(ps) = 0 THEN <<>> ELSE RenderPart(ps[1]) \o Flatten(Tail(ps))

-----------------------------------------------------------------------------
(* Snippets: what the cleaned code does when Python runs it.  A snippet is   *)
(* a sequence of top-level statements, or a text that does not compile.     *)

Unbound == "Unbound"
NoneValue == "None"
LocalNames == {"plot", "fig", "df"}

\* CodeExecutor.__init__: the whitelist every exec gets as its globals
global_context == {"pd", "gpd", "px", "go", "print"}

\* what the body of a function named plot does when it is called
PlotBodies == {"return_fig", "return_none", "return_df",
               "raise_ValueError", "raise_SystemExit"}

\* bodies of plot that write to the mapping they are handed, or read a name
\* the snippet bound at top level
ExtraBodies == {"rebind_df", "return_top_fig"}

\* the classes caught by "except Exception"; SystemExit is not one of them
ExceptionClasses == {"SyntaxError", "NameError", "ValueError", "KeyError"}

Stmts ==
    {[op |-> "def", name |-> "plot", arg |-> b] : b \in PlotBodies}
    \cup {[op |-> "assign", name |-> "fig", arg |-> v] : v \in {"Figure", NoneValue}}
    \cup {[op |-> "assign", name |-> "plot", arg |-> "Five"]}
    \cup {[op |-> "use", name |-> n, arg |-> ""] : n \in {"df", "px"}}
    \cup {[op |-> "lookup", name |-> "df", arg |-> ""]}
    \cup {[op |-> "raise", name |-> "", arg |-> e] :
            e \in {"NameError", "SyntaxError", "ValueError", "SystemExit"}}

Snippets ==
    {[valid |-> TRUE, stmts |-> ss] : ss \in SeqsUpTo(Stmts, MaxStmts)}
    \cup {[valid |-> FALSE, stmts |-> <<>>]}

\* snippets that rebind or delete a binding, in plot or at top level, and
\* one whose plot reads a constant the snippet binds at top level
ExtraSnippets ==
    {[valid |-> TRUE, stmts |-> ss] : ss \in
        {<<[op |-> "def", name |-> "plot", arg |-> "rebind_df"]>>,
         <<[op |-> "assign", name |-> "df", arg |-> "Other"],
           [op |-> "assign", name |-> "fig", arg |-> "Figure"]>>,
         <<[op |-> "del", name |-> "df", arg |-> ""],
           [op |-> "assign", name |-> "fig", arg |-> "Figure"]>>,
         <<[op |-> "assign", name |-> "fig", arg |-> "Figure"],
           [op |-> "def", name |-> "plot", arg |-> "return_top_fig"]>>}}

EmptyScope == [n \in LocalNames |-> Unbound]

\* bindings mappings: any of the names df and fig bound to a table
DataContexts == {c \in [LocalNames -> {Unbound, "Frame"}] : c["plot"] = Unbound}

\* name lookup at top level: the locals of exec, then its globals
Resolves(name, scope) ==
    \/ name \in DOMAIN scope /\ scope[name] # Unbound
    \/ name \in global_context

\* the statements of a compiled snippet run in order in the given scope
\* (the locals of exec) until one raises
RECURSIVE RunStmts(_, _)
RunStmts(ss, scope) ==
    IF Len(ss) = 0 THEN [exc |-> "none", scope |-> scope]
    ELSE
        LET st == ss[1]
        IN  CASE st.op \in {"def", "assign"} ->
                    RunStmts(Tail(ss), [scope EXCEPT ![st.name] = st.arg])
              [] st.op = "use" ->
                    IF Resolves(st.name, scope)
                    THEN RunStmts(Tail(ss), scope)
                    ELSE [exc |-> "NameError", scope |-> scope]
              [] st.op = "del" ->
                    IF scope[st.name] # Unbound
                    THEN RunStmts(Tail(ss), [scope EXCEPT ![st.name] = Unbound])
                    ELSE [exc |-> "NameError", scope |-> scope]
              [] st.op = "lookup" ->
                    \* locals()[name]
                    IF scope[st.name] # Unbound
                    THEN RunStmts(Tail(ss), scope)
                    ELSE [exc |-> "KeyError", scope |-> scope]
              [] OTHER -> [exc |-> st.arg, scope |-> scope]

\* exec(clean_code, self.global_context, scope): compile, then run
Exec(snip, scope) ==
    IF ~snip.valid THEN [exc |-> "SyntaxError", scope |-> scope]
    ELSE RunStmts(snip.stmts, scope)

\* callable(x)
Callable(v) == v \in PlotBodies \cup ExtraBodies

\* local_scope["plot"](data_context)
CallPlot(body, ctx) ==
    CASE body = "return_fig" -> [exc |-> "none", value |-> "Figure"]
      [] body = "return_none" -> [exc |-> "none", value |-> NoneValue]
      [] body = "return_df" ->
            IF ctx["df"] # Unbound THEN [exc |-> "none", value |-> ctx["df"]]
            ELSE [exc |-> "KeyError", value |-> NoneValue]
      [] body = "raise_ValueError" -> [exc |-> "ValueError", value |-> NoneValue]
      [] body = "rebind_df" -> [exc |-> "none", value |-> "Figure"]
      [] body = "return_top_fig" ->
            \* the globals of plot are the whitelist: a name of the snippet's
            \* top level is not among them
            IF "fig" \in global_context
            THEN [exc |-> "none", value |-> "Figure"]
            ELSE [exc |-> "NameError", value |-> NoneValue]
      [] OTHER -> [exc |-> "SystemExit", value |-> NoneValue]

\* the mapping handed to plot once plot has run: plot works on the caller's
\* mapping itself
CallPlotContext(body, ctx) ==
    IF body = "rebind_df" THEN [ctx EXCEPT !["df"] = "Other"] ELSE ctx

-----------------------------------------------------------------------------
(* CodeExecutor.execute *)

NoError == <<>>

\* traceback.format_exc()
format_exc(exc) == <<"Traceback (most recent call last):", "  File ...", exc>>

SyntaxErrorText(exc) ==
    <<"SyntaxError (Check indentation or non-code text): ", exc>>
PlotErrorText(exc) == <<"Runtime Error inside plot(): ">> \o format_exc(exc)
MissingOutputText ==
    <<"Code executed but neither 'plot(data_context)' function nor 'fig' variable was found.">>

\* ExecutionResult(success, result, error, code) handed back by a return
\* statement; restored tells whether sys.stdout = old_stdout was executed
\* on the way, mode which dispatch path was taken
Return(success, result, error, snip, mode) ==
    [status |-> "returned", success |-> success, result |-> result,
     error |-> error, code |-> snip, exc |-> "none", restored |-> TRUE,
     mode |-> mode]

\* an exception that leaves execute; no path that ends this way restores
\* sys.stdout
Raise(exc, snip, mode) ==
    [status |-> "raised", success |-> FALSE, result |-> NoneValue,
     error |-> NoError, code |-> snip, exc |-> exc, restored |-> FALSE,
     mode |-> mode]

\* the script run as it would be if an exception of the script were
\* swallowed and only the presence of fig looked at
ScriptMode_swallow(snip, ctx) ==
    LET r == Exec(snip, ctx)
    IN  IF r.exc = "none" \/ r.exc \in ExceptionClasses
        THEN IF r.scope["fig"] # Unbound
             THEN Return(TRUE, r.scope["fig"], NoError, snip, "script")
             ELSE Return(FALSE, NoneValue, MissingOutputText, snip, "script")
        ELSE Raise(r.exc, snip, "script")

\* step 3 of execute: the script run
ScriptMode(snip, ctx) ==
    LET r == Exec(snip, ctx)
    IN  IF r.exc = "none"
        THEN IF r.scope["fig"] # Unbound
             THEN Return(TRUE, r.scope["fig"], NoError, snip, "script")
             ELSE Return(FALSE, NoneValue, MissingOutputText, snip, "script")
        ELSE IF r.exc \in ExceptionClasses
        THEN Return(FALSE, NoneValue, format_exc(r.exc), snip, "script")
        ELSE Raise(r.exc, snip, "script")

\* step 2 of execute: the call of plot
ScaffoldMode(snip, ctx, local_scope) ==
    LET c == CallPlot(local_scope["plot"], ctx)
    IN  IF c.exc = "none"
        THEN Return(TRUE, c.value, NoError, snip, "callable")
        ELSE IF c.exc \in ExceptionClasses
        THEN Return(FALSE, NoneValue, PlotErrorText(c.exc), snip, "callable")
        ELSE Raise(c.exc, snip, "callable")

\* CodeExecutor.execute, from the definition pass on
execute(snip, ctx) ==
    LET d == Exec(snip, EmptyScope)
    IN  IF d.exc = "SyntaxError"
        THEN Return(FALSE, NoneValue, SyntaxErrorText(d.exc), snip, "none")
        ELSE IF d.exc \in {"none", "NameError"}
        THEN IF Callable(d.scope["plot"])
             THEN ScaffoldMode(snip, ctx, d.scope)
             ELSE ScriptMode(snip, ctx)
        ELSE IF d.exc \in ExceptionClasses
        THEN Return(FALSE, NoneValue, format_exc(d.exc), snip, "none")
        ELSE Raise(d.exc, snip, "none")

\* execute reaches its dispatch (step 2) when the definition pass raised
\* nothing or a NameError
Dispatches(snip) == Exec(snip, EmptyScope).exc \in {"none", "NameError"}

\* the caller's mapping after execute: plot is handed data_context itself,
\* the script run a copy of it
bindings_after(snip, ctx) ==
    LET d == Exec(snip, EmptyScope)
    IN  IF Dispatches(snip) /\ Callable(d.scope["plot"])
        THEN CallPlotContext(d.scope["plot"], ctx)
        ELSE ctx

\* the number of exec calls of one invocation: the definition pass, and
\* the script run when dispatch finds no callable plot
exec_calls(snip) ==
    IF Dispatches(snip) /\ ~Callable(Exec(snip, EmptyScope).scope["plot"])
    THEN 2 ELSE 1

NoOutcome ==
    [status |-> "none", success |-> FALSE, result |-> NoneValue,
     error |-> NoError, code |-> [valid |-> TRUE, stmts |-> <<>>],
     exc |-> "none", restored |-> TRUE, mode |-> "none"]

NoCode == [valid |-> FALSE, stmts |-> <<"None">>]
NoRequest == [kind |-> "none", code |-> NoCode, error |-> NoError,
              summaries |-> <<>>]

\* main: the session state before the first turn
\* msg_holder: one placeholder whose content each write replaces
Holder(kind, txt, n) == [kind |-> kind, text |-> txt, count |-> n]

\* the elements written below the placeholder
Element(kind, txt, snip) == [kind |-> kind, text |-> txt, code |-> snip]

NoDisplay == [holder |-> Holder("empty", <<>>, 0), extra |-> <<>>]

\* err_msg as it would be if it named the failure without its error text
err_msg_generic(error) == <<"exec failed:", NL, FENCE, NL, NL, FENCE>>

\* err_msg of handle_query: the execution error between two fence lines
err_msg(error) == <<"exec failed:", NL, FENCE, NL>> \o error \o <<NL, FENCE>>

TurnIdle ==
    /\ turn_pc = "idle"
    /\ shown = NoDisplay
    /\ code = NoCode
    /\ res = NoOutcome
    /\ count = 0
    /\ messages = <<>>
    /\ last_generated_code = NoCode
    /\ request = NoRequest
    /\ execs = 0
    /\ failures = 0
    /\ turns = 0

Threads == 1..MaxThreads

ExecIdle ==
    /\ snippet = [valid |-> TRUE, stmts |-> <<>>]
    /\ data_context = EmptyScope
    /\ outcome = NoOutcome
    /\ sys_stdout = 0
    /\ stdout_before = 0
    /\ calls = 0
    /\ context_after = EmptyScope
    /\ evals = 0
    /\ thread_pc = [t \in Threads |-> "idle"]
    /\ old_stdout = [t \in Threads |-> 0]
    /\ thread_code = [t \in Threads |-> [valid |-> TRUE, stmts |-> <<>>]]

NoRewrap == [done |-> FALSE, label |-> <<>>, body |-> <<>>, first |-> <<>>]

CleanIdle ==
    /\ parts = <<>>
    /\ text = <<>>
    /\ cleaned = <<>>
    /\ clean_pc = "idle"
    /\ rewrap = NoRewrap

-----------------------------------------------------------------------------
(* File names and sanitize_var_name.  A name is a sequence of characters.   *)

AsciiLower == {"a", "b", "c", "d", "e", "f", "g", "h", "i", "j", "k", "l", "m",
               "n", "o", "p", "q", "r", "s", "t", "u", "v", "w", "x", "y", "z"}
AsciiUpper == {"A", "B", "C", "D", "F", "S", "V"}
Digits == {"0", "1"}
Alnum == AsciiLower \cup AsciiUpper \cup Digits

\* str.lower on one character
LowerChar(c) ==
    CASE c = "A" -> "a" [] c = "B" -> "b" [] c = "C" -> "c" [] c = "D" -> "d"
      [] c = "F" -> "f" [] c = "S" -> "s" [] c = "V" -> "v" [] OTHER -> c

\* str.lower
lower(s) == [i \in 1..Len(s) |-> LowerChar(s[i])]

\* s.rfind("."), counted from 1; 0 when s has no dot
RECURSIVE LastDot(_, _)
LastDot(s, i) ==
    IF i = 0 THEN 0 ELSE IF s[i] = "." THEN i ELSE LastDot(s, i - 1)

\* os.path.splitext on a base name: the extension starts at the last dot,
\* unless only dots come before it
splitext(p) ==
    LET dotIndex == LastDot(p, Len(p))
    IN  IF dotIndex > 0 /\ (\E i \in 1..(dotIndex - 1) : p[i] # ".")
        THEN [root |-> SubSeq(p, 1, dotIndex - 1),
              ext |-> SubSeq(p, dotIndex, Len(p))]
        ELSE [root |-> p, ext |-> <<>>]

\* re.sub(r'[^a-zA-Z0-9]', '_', name)
sub_non_alnum(name) ==
    [i \in 1..Len(name) |-> IF name[i] \in Alnum THEN name[i] ELSE "_"]

df_ == <<"d", "f", "_">>

\* sanitize_var_name without its final .lower()
sanitize_var_name_no_lower(filename) ==
    LET name == splitext(filename).root
        clean_name == sub_non_alnum(name)
    IN  IF clean_name[1] \in Digits THEN df_ \o clean_name
        ELSE IF ~IsPrefix(df_, clean_name) THEN df_ \o clean_name
        ELSE clean_name

\* sanitize_var_name; clean_name[0] of the code is clean_name[1] here, and
\* the call raises IndexError for the empty name
sanitize_var_name(filename) ==
    LET name == splitext(filename).root
        clean_name == sub_non_alnum(name)
    IN  lower(IF clean_name[1] \in Digits THEN df_ \o clean_name
              ELSE IF ~IsPrefix(df_, clean_name) THEN df_ \o clean_name
              ELSE clean_name)

NameChars == {"a", "A", "1", "d", "f", "_", "-", "."}
NameInputs == SeqsUpTo(NameChars, MaxNameLen) \ {<<>>}

SessIdle ==
    /\ file_name = <<>>
    /\ var_name = <<>>
    /\ name_pc = "idle"
    /\ uploaded_filenames = {}
    /\ last_use_full = FALSE
    /\ data_summaries = <<>>
    /\ session_context = <<>>

NameInit ==
    /\ CleanIdle /\ ExecIdle /\ TurnIdle
    /\ file_name \in NameInputs
    /\ var_name = <<>>
    /\ name_pc = "input"
    /\ uploaded_filenames = {}
    /\ last_use_full = FALSE
    /\ data_summaries = <<>>
    /\ session_context = <<>>

SanitizeVarName ==
    /\ name_pc = "input"
    /\ var_name' = sanitize_var_name(file_name)
    /\ name_pc' = "done"
    /\ UNCHANGED <<file_name, uploaded_filenames, last_use_full,
                   data_summaries, session_context>>
    /\ UNCHANGED clean_vars
    /\ UNCHANGED exec_vars
    /\ UNCHANGED turn_vars

NameNext == SanitizeVarName

NameSpec == NameInit /\ [][NameNext]_vars

-----------------------------------------------------------------------------
(* Specification of execute *)

\* one invocation of execute by some caller: old_stdout is saved, sys.stdout
\* is pointed at a fresh StringIO, the snippet is run, and sys.stdout is set
\* back on the paths that do so
Execute(snip, ctx) ==
    /\ calls < MaxCalls
    /\ snippet' = snip
    /\ data_context' = ctx
    /\ outcome' = execute(snip, ctx)
    /\ context_after' = bindings_after(snip, ctx)
    /\ evals' = exec_calls(snip)
    /\ calls' = calls + 1
    /\ stdout_before' = sys_stdout
    /\ sys_stdout' = IF outcome'.restored THEN sys_stdout ELSE calls + 1
    /\ UNCHANGED <<thread_pc, old_stdout, thread_code>>
    /\ UNCHANGED clean_vars
    /\ UNCHANGED sess_vars
    /\ UNCHANGED turn_vars

ExecInit == CleanIdle /\ ExecIdle /\ TurnIdle /\ SessIdle

ExecNext ==
    \E snip \in Snippets \cup ExtraSnippets, ctx \in DataContexts :
        Execute(snip, ctx)

ExecSpec == ExecInit /\ [][ExecNext]_vars

-----------------------------------------------------------------------------
(* Two sessions in execute at the same time.  get_core_modules is cached   *)
(* with st.cache_resource, so every session calls the one CodeExecutor,    *)
(* each in its own script thread, and sys.stdout belongs to the process.   *)
(* Each thread runs the steps of execute in order: old_stdout = sys.stdout *)
(* ("save"), sys.stdout = redirected_output ("redirect"), the run of the   *)
(* snippet ("run"), and sys.stdout = old_stdout on a path that returns     *)
(* ("restore").                                                            *)

OverlapInit == CleanIdle /\ ExecIdle /\ TurnIdle /\ SessIdle

OverlapFrame ==
    /\ UNCHANGED <<snippet, data_context, outcome, stdout_before, calls,
                   context_after, evals>>
    /\ UNCHANGED clean_vars
    /\ UNCHANGED sess_vars
    /\ UNCHANGED turn_vars

\* execute is entered with a candidate: old_stdout = sys.stdout
Save(t, snip) ==
    /\ thread_pc[t] = "idle"
    /\ thread_code' = [thread_code EXCEPT ![t] = snip]
    /\ old_stdout' = [old_stdout EXCEPT ![t] = sys_stdout]
    /\ thread_pc' = [thread_pc EXCEPT ![t] = "saved"]
    /\ UNCHANGED sys_stdout
    /\ OverlapFrame

\* sys.stdout = redirected_output
Redirect(t) ==
    /\ thread_pc[t] = "saved"
    /\ sys_stdout' = t
    /\ thread_pc' = [thread_pc EXCEPT ![t] = "redirected"]
    /\ UNCHANGED <<old_stdout, thread_code>>
    /\ OverlapFrame

\* the snippet is run up to the statement that leaves execute
Run(t) ==
    /\ thread_pc[t] = "redirected"
    /\ thread_pc' = [thread_pc EXCEPT ![t] =
            IF execute(thread_code[t], EmptyScope).restored
            THEN "returning" ELSE "raised"]
    /\ UNCHANGED <<sys_stdout, old_stdout, thread_code>>
    /\ OverlapFrame

\* sys.stdout = old_stdout, then the return statement
Restore(t) ==
    /\ thread_pc[t] = "returning"
    /\ sys_stdout' = old_stdout[t]
    /\ thread_pc' = [thread_pc EXCEPT ![t] = "finished"]
    /\ UNCHANGED <<old_stdout, thread_code>>
    /\ OverlapFrame

OverlapSnippets ==
    {[valid |-> FALSE, stmts |-> <<>>],
     [valid |-> TRUE,
      stmts |-> <<[op |-> "def", name |-> "plot", arg |-> "return_fig"]>>],
     [valid |-> TRUE,
      stmts |-> <<[op |-> "raise", name |-> "", arg |-> "SystemExit"]>>]}

OverlapNext ==
    \E t \in Threads :
        \/ \E snip \in OverlapSnippets : Save(t, snip)
        \/ Redirect(t)
        \/ Run(t)
        \/ Restore(t)

OverlapSpec == OverlapInit /\ [][OverlapNext]_vars

-----------------------------------------------------------------------------
(* handle_query: one user turn, generate -> execute -> repair *)

retries == 3

\* the candidates the model answers with
TurnSnippets ==
    {[valid |-> TRUE, stmts |-> ss] : ss \in SeqsUpTo(Stmts, 1)}
    \cup {[valid |-> FALSE, stmts |-> <<>>]}

\* the bindings of the session: one analysed file, bound to df
TurnContext == [n \in LocalNames |-> IF n = "df" THEN "Frame" ELSE Unbound]

Msg(role, type, txt, snip, plot) ==
    [role |-> role, type |-> type, text |-> txt, code |-> snip, plot |-> plot]

Ended == {"success", "exhausted", "system_error", "crashed"}

\* the while condition of the self-healing loop, as it would be if it
\* compared with <= in place of <
ShouldRepair_le(r, cnt) == ~r.success /\ cnt <= retries

\* the while condition of the self-healing loop
ShouldRepair(r, cnt) == ~r.success /\ cnt < retries

\* the result display as it would be if it kept the candidate whatever the
\* result
AcceptedCode_always(r, c, prev) == c

\* st.session_state.last_generated_code after the result display: the
\* candidate if its execution succeeded, else what it was
AcceptedCode(r, c, prev) == IF r.success THEN c ELSE prev

\* the user sends a query: it is recorded, and the branch edit / generate
\* is taken
StartTurn(force_new) ==
    /\ turn_pc \in {"idle"} \cup Ended
    /\ turns < MaxTurns
    /\ turns' = turns + 1
    /\ messages' = Append(messages, Msg("user", "text", <<"query">>, NoCode, NoneValue))
    /\ request' = [kind |-> IF last_generated_code # NoCode /\ ~force_new
                            THEN "edit" ELSE "generate",
                   code |-> IF last_generated_code # NoCode /\ ~force_new
                            THEN last_generated_code ELSE NoCode,
                   error |-> NoError,
                   summaries |-> data_summaries]
    /\ shown' = [holder |-> Holder("markdown",
                                   IF last_generated_code # NoCode /\ ~force_new
                                   THEN <<"Editing...">> ELSE <<"Generating...">>,
                                   0),
                 extra |-> <<>>]
    /\ turn_pc' = "generating"
    /\ count' = 0
    /\ execs' = 0
    /\ failures' = 0
    /\ UNCHANGED <<code, res, last_generated_code>>
    /\ UNCHANGED clean_vars
    /\ UNCHANGED sess_vars
    /\ UNCHANGED exec_vars

\* editor.edit_code / generator.generate_code returns a candidate
Generate(c) ==
    /\ turn_pc = "generating"
    /\ code' = c
    /\ shown' = [shown EXCEPT !.holder = Holder("markdown", <<"Executing...">>, 0)]
    /\ turn_pc' = "executing"
    /\ UNCHANGED <<res, count, messages, last_generated_code, request,
                   execs, failures, turns>>
    /\ UNCHANGED clean_vars
    /\ UNCHANGED sess_vars
    /\ UNCHANGED exec_vars

\* the except clause as it would be if it also recorded its message in the
\* history
ModelRaises_recorded ==
    /\ turn_pc \in {"generating", "repairing"}
    /\ turn_pc' = "system_error"
    /\ shown' = [shown EXCEPT !.extra =
                    Append(@, Element("error", <<"System Error: ">>, NoCode))]
    /\ messages' = Append(messages,
            Msg("assistant", "text", <<"System Error: ">>, NoCode, NoneValue))
    /\ UNCHANGED <<code, res, count, last_generated_code, request,
                   execs, failures, turns>>
    /\ UNCHANGED clean_vars
    /\ UNCHANGED sess_vars
    /\ UNCHANGED exec_vars

\* a model call raises: the except clause of handle_query shows the error
ModelRaises ==
    /\ turn_pc \in {"generating", "repairing"}
    /\ turn_pc' = "system_error"
    /\ shown' = [shown EXCEPT !.extra =
                    Append(@, Element("error", <<"System Error: ">>, NoCode))]
    /\ UNCHANGED <<code, res, count, messages, last_generated_code, request,
                   execs, failures, turns>>
    /\ UNCHANGED clean_vars
    /\ UNCHANGED sess_vars
    /\ UNCHANGED exec_vars

\* executor.execute(code, data_context), then the loop test and, when the
\* loop is left, the display of the result
ExecuteCode ==
    /\ turn_pc = "executing"
    /\ LET o == execute(code, TurnContext)
       IN  /\ snippet' = code
           /\ data_context' = TurnContext
           /\ outcome' = o
           /\ context_after' = bindings_after(code, TurnContext)
           /\ evals' = exec_calls(code)
           /\ calls' = calls + 1
           /\ stdout_before' = sys_stdout
           /\ sys_stdout' = IF o.restored THEN sys_stdout ELSE calls + 1
           /\ UNCHANGED <<thread_pc, old_stdout, thread_code>>
           /\ execs' = execs + 1
           /\ IF o.status = "raised"
              THEN /\ turn_pc' = "crashed"
                   /\ UNCHANGED <<res, count, messages, last_generated_code,
                                  failures, shown>>
              ELSE /\ res' = o
                   /\ failures' = IF o.success THEN failures ELSE failures + 1
                   /\ IF ShouldRepair(o, count)
                      THEN /\ count' = count + 1
                           /\ shown' = [shown EXCEPT !.holder =
                                Holder("warning", <<"auto repair no.">>, count + 1)]
                           /\ turn_pc' = "repairing"
                           /\ UNCHANGED <<messages, last_generated_code>>
                      ELSE IF o.success
                      THEN /\ last_generated_code' =
                                AcceptedCode(o, code, last_generated_code)
                           /\ messages' = messages \o
                                <<Msg("assistant", "plot", <<>>, NoCode, o.result),
                                  Msg("assistant", "code", <<>>, code, NoneValue)>>
                           /\ shown' = NoDisplay
                           /\ turn_pc' = "success"
                           /\ UNCHANGED count
                      ELSE /\ messages' = Append(messages,
                                Msg("assistant", "text",
                                    err_msg(o.error), NoCode, NoneValue))
                           /\ shown' = [holder |-> Holder("error", err_msg(o.error), 0),
                                        extra |-> Append(shown.extra,
                                            Element("code", <<>>, code))]
                           /\ last_generated_code' =
                                AcceptedCode(o, code, last_generated_code)
                           /\ turn_pc' = "exhausted"
                           /\ UNCHANGED count
    /\ UNCHANGED <<code, request, turns>>
    /\ UNCHANGED clean_vars
    /\ UNCHANGED sess_vars

\* the fix request as it would be if it quoted only the last line of the
\* error
FixRequest_last_line(original_code, error_trace, summaries) ==
    [kind |-> "fix", code |-> original_code,
     error |-> <<error_trace[Len(error_trace)]>>, summaries |-> summaries]

\* fix_code: the messages sent to the model, made of the system prompt
\* built from the summaries, the broken code and the error traceback
FixRequest(original_code, error_trace, summaries) ==
    [kind |-> "fix", code |-> original_code, error |-> error_trace,
     summaries |-> summaries]

\* generator.fix_code(code, res.error, summaries) returns the next candidate
FixCode(c) ==
    /\ turn_pc = "repairing"
    /\ request' = FixRequest(code, res.error, data_summaries)
    /\ code' = c
    /\ turn_pc' = "executing"
    /\ UNCHANGED <<res, count, messages, last_generated_code, shown,
                   execs, failures, turns>>
    /\ UNCHANGED clean_vars
    /\ UNCHANGED sess_vars
    /\ UNCHANGED exec_vars

TurnInit == CleanIdle /\ ExecIdle /\ TurnIdle /\ SessIdle

TurnNext ==
    \/ \E force_new \in BOOLEAN : StartTurn(force_new)
    \/ \E c \in TurnSnippets : Generate(c)
    \/ ModelRaises
    \/ ExecuteCode
    \/ \E c \in TurnSnippets : FixCode(c)

TurnSpec == TurnInit /\ [][TurnNext]_vars

\* handle_query runs to its end once started: every call it makes returns
\* or raises
TurnFairSpec == TurnSpec /\ WF_vars(TurnNext)

-----------------------------------------------------------------------------
(* main: one script run up to the data context *)

Range(s) == {s[i] : i \in 1..Len(s)}

\* get_analyzable_files: valid_exts
valid_exts == {<<".", "c", "s", "v">>, <<".", "p", "a", "r", "q", "u", "e", "t">>,
               <<".", "s", "h", "p">>, <<".", "g", "e", "o", "j", "s", "o", "n">>,
               <<".", "x", "l", "s", "x">>}

\* get_analyzable_files: the main data files among the saved ones
get_analyzable_files(files) ==
    SelectSeq(files, LAMBDA f : lower(splitext(f).ext) \in valid_exts)

\* the names a user uploads
UploadNames == {<<"a", "-", "b", ".", "c", "s", "v">>,
                <<"a", "_", "b", ".", "c", "s", "v">>,
                <<"A", ".", "c", "s", "v">>,
                <<"a", ".", "s", "h", "p">>,
                <<"a", ".", "d", "b", "f">>,
                <<"1", ".", "c", "s", "v">>}

\* the content of the file uploader: distinct names in the order of upload
Uploads(names, n) ==
    {fs \in SeqsUpTo(names, n) : \A i, j \in 1..Len(fs) : i # j => fs[i] # fs[j]}

\* the analysis loop: one summary per file whose analysis has no error, in
\* order, each with the identifier sanitize_var_name gives its file
RECURSIVE Analyse(_, _)
Analyse(paths, ok) ==
    IF paths = <<>> THEN <<>>
    ELSE (IF Head(paths) \in ok
          THEN <<[name |-> Head(paths),
                  variable_name |-> sanitize_var_name(Head(paths))]>>
          ELSE <<>>) \o Analyse(Tail(paths), ok)

\* data_context[var_name] = df: an identifier already there is overwritten
Assign(ctx, var, file) ==
    IF \E i \in 1..Len(ctx) : ctx[i].variable_name = var
    THEN [i \in 1..Len(ctx) |->
            IF ctx[i].variable_name = var
            THEN [variable_name |-> var, file |-> file] ELSE ctx[i]]
    ELSE Append(ctx, [variable_name |-> var, file |-> file])

\* the loop that prepares data_context: one snapshot per summary whose file
\* loads
RECURSIVE BuildContext(_, _, _)
BuildContext(summaries, loaded, ctx) ==
    IF summaries = <<>> THEN ctx
    ELSE BuildContext(Tail(summaries), loaded,
            IF Head(summaries).name \in loaded
            THEN Assign(ctx, Head(summaries).variable_name, Head(summaries).name)
            ELSE ctx)

\* the reset detection as it would be if it looked at the files only
ResetDetected_files_only(current_names, use_full) ==
    current_names # uploaded_filenames

\* the reset detection: file_changed or mode_changed
ResetDetected(current_names, use_full) ==
    \/ current_names # uploaded_filenames
    \/ use_full # last_use_full

\* one run of main without a query: the reset detection, the analysis of
\* the files when there are no summaries, and the data context
ScriptRun(uploaded_files, use_full, ok, loaded) ==
    /\ turn_pc \in {"idle"} \cup Ended
    /\ LET current_names == Range(uploaded_files)
           reset == ResetDetected(current_names, use_full)
           kept == IF reset THEN <<>> ELSE data_summaries
           analyzable_paths == get_analyzable_files(uploaded_files)
           summaries == IF analyzable_paths # <<>> /\ kept = <<>>
                        THEN Analyse(analyzable_paths, ok) ELSE kept
       IN  /\ uploaded_filenames' = current_names
           /\ last_use_full' = use_full
           /\ data_summaries' = summaries
           /\ messages' = IF reset THEN <<>> ELSE messages
           /\ last_generated_code' = IF reset THEN NoCode ELSE last_generated_code
           /\ session_context' = IF analyzable_paths # <<>>
                                 THEN BuildContext(summaries, loaded, <<>>)
                                 ELSE <<>>
    /\ turn_pc' = "idle"
    /\ shown' = NoDisplay
    /\ UNCHANGED <<code, res, count, request, execs, failures, turns>>
    /\ UNCHANGED <<file_name, var_name, name_pc>>
    /\ UNCHANGED clean_vars
    /\ UNCHANGED exec_vars

BindInit == CleanIdle /\ ExecIdle /\ TurnIdle /\ SessIdle

BindNext ==
    \E uploaded_files \in Uploads(UploadNames, MaxFiles), use_full \in BOOLEAN :
        \E ok \in SUBSET Range(uploaded_files) :
            \E loaded \in SUBSET ok :
                ScriptRun(uploaded_files, use_full, ok, loaded)

BindSpec == BindInit /\ [][BindNext]_vars

\* a session: script runs that change the files or the mode, and turns
SessionFiles == {<<"a", ".", "c", "s", "v">>}

\* the candidates of a session's turns: one that does not compile, one
\* that draws a figure, one that leaves execute with SystemExit
SessionSnippets ==
    {[valid |-> FALSE, stmts |-> <<>>],
     [valid |-> TRUE,
      stmts |-> <<[op |-> "def", name |-> "plot", arg |-> "return_fig"]>>],
     [valid |-> TRUE,
      stmts |-> <<[op |-> "raise", name |-> "", arg |-> "SystemExit"]>>]}

\* the chat area is drawn only when an analysable file is uploaded
ChatAvailable ==
    \E f \in uploaded_filenames : get_analyzable_files(<<f>>) # <<>>

SessionNext ==
    \/ \E force_new \in BOOLEAN : ChatAvailable /\ StartTurn(force_new)
    \/ \E c \in SessionSnippets : Generate(c)
    \/ ModelRaises
    \/ ExecuteCode
    \/ \E c \in SessionSnippets : FixCode(c)
    \/ \E uploaded_files \in Uploads(SessionFiles, 1), use_full \in BOOLEAN :
        \E loaded \in SUBSET Range(uploaded_files) :
            ScriptRun(uploaded_files, use_full, Range(uploaded_files), loaded)

SessionSpec == TurnInit /\ [][SessionNext]_vars

-----------------------------------------------------------------------------
(* Specification of _clean_code: a reply comes in, _clean_code is applied *)

CleanInit ==
    /\ SessIdle
    /\ ExecIdle
    /\ TurnIdle
    /\ \/ parts = <<>> /\ text \in FreeTexts
       \/ parts \in StructuredReplies /\ text = Flatten(parts)
    /\ cleaned = <<>>
    /\ clean_pc = "input"
    /\ rewrap = NoRewrap

CleanCode ==
    /\ clean_pc = "input"
    /\ cleaned' = clean_code(text)
    /\ clean_pc' = "done"
    /\ UNCHANGED <<parts, text, rewrap>>
    /\ UNCHANGED sess_vars
    /\ UNCHANGED exec_vars
    /\ UNCHANGED turn_vars

\* a text wrapped in a delimiter: the fence with its label on a line of its
\* own, the text, and the closing fence on the next line
Wrap(label, t) == <<FENCE>> \o label \o <<NL>> \o t \o <<NL, FENCE>>

\* the caller wraps what _clean_code extracted from a reply with exactly one
\* delimited region in that region's delimiter and hands it in again
Rewrap ==
    /\ clean_pc = "done"
    /\ ~rewrap.done
    /\ parts # <<>>
    /\ Len(SelectSeq(parts, LAMBDA p : p.kind = "block")) = 1
    /\ LET b == SelectSeq(parts, LAMBDA p : p.kind = "block")[1]
       IN  /\ rewrap' = [done |-> TRUE, label |-> b.label, body |-> b.body,
                         first |-> cleaned]
           /\ text' = Wrap(b.label, cleaned)
    /\ parts' = <<>>
    /\ clean_pc' = "input"
    /\ UNCHANGED cleaned
    /\ UNCHANGED sess_vars
    /\ UNCHANGED exec_vars
    /\ UNCHANGED turn_vars

CleanNext == CleanCode \/ Rewrap

CleanSpec == CleanInit /\ [][CleanNext]_vars

-----------------------------------------------------------------------------
(* Properties of _clean_code *)

Blocks(ps) == SelectSeq(ps, LAMBDA p : p.kind = "block")

\* the opening fence is directly followed by the word python, in any case
IsPythonLabelled(p) == Len(p.label) > 0 /\ IsPython(p.label[1])

PythonBlocks(ps) == SelectSeq(Blocks(ps), IsPythonLabelled)

\* no closing fence is directly followed by the word python
ClosersEndCleanly(ps) ==
    \A i \in 2..Len(ps) :
        (ps[i].kind = "prose" /\ ps[i - 1].kind = "block")
            => ~(Len(ps[i].body) > 0 /\ IsPython(ps[i].body[1]))

HasTwoBlocks == Len(Blocks(parts)) = 2
BlockA == Blocks(parts)[1]
BlockB == Blocks(parts)[2]

\* C7 as stated: for every reply with two delimited regions A then B,
\* whatever their labels, _clean_code returns the dedented, trimmed B.
C7_LastBlockWins_AnyLabels ==
    (clean_pc = "done" /\ HasTwoBlocks /\ ClosersEndCleanly(parts)
        /\ BlockA.body # <<>> /\ BlockB.body # <<>>)
    => cleaned = strip(dedent(BlockB.body))

\* C7 amended: for every reply with two delimited regions A then B in which
\* B is python-labelled or A is not, B is not empty and no closing fence is
\* directly followed by the word python, _clean_code returns the dedented,
\* trimmed B.
C7_LastBlockWins ==
    (clean_pc = "done" /\ HasTwoBlocks /\ ClosersEndCleanly(parts)
        /\ BlockB.body # <<>>
        /\ (IsPythonLabelled(BlockB) \/ ~IsPythonLabelled(BlockA)))
    => cleaned = strip(dedent(BlockB.body))

C7_Witness ==
    /\ clean_pc = "done" /\ HasTwoBlocks /\ ClosersEndCleanly(parts)
    /\ IsPythonLabelled(BlockA) /\ IsPythonLabelled(BlockB)
    /\ BlockA.body # <<>> /\ BlockB.body # <<>>
    /\ cleaned = strip(dedent(BlockB.body))
    /\ cleaned # strip(dedent(BlockA.body))
    /\ cleaned # <<>>

\* the region the priority rule selects: the last python-labelled region if
\* there is one, otherwise the last region
SelectedBody(ps) ==
    IF PythonBlocks(ps) # <<>> THEN Last(PythonBlocks(ps)).body
    ELSE Last(Blocks(ps)).body

\* C8 as stated: python-labelled regions first, then regions of any kind,
\* and the whole reply only when the reply has no delimited region at all.
C8_Priority_WholeOnlyWithoutRegion ==
    (clean_pc = "done" /\ parts # <<>> /\ ClosersEndCleanly(parts))
    => cleaned = IF Blocks(parts) # <<>>
                 THEN strip(dedent(SelectedBody(parts)))
                 ELSE strip(dedent(text))

\* C8 amended: _clean_code selects the last python-labelled region if the
\* reply has any, otherwise the last delimited region of any kind; the whole
\* reply (dedented, trimmed) is returned when the reply has no delimited
\* region or when the selected region is empty (in a reply where no closing
\* fence is directly followed by the word python).
C8_Priority ==
    (clean_pc = "done" /\ parts # <<>> /\ ClosersEndCleanly(parts))
    => cleaned = IF Blocks(parts) # <<>> /\ SelectedBody(parts) # <<>>
                 THEN strip(dedent(SelectedBody(parts)))
                 ELSE strip(dedent(text))

C8_Witness ==
    /\ clean_pc = "done" /\ HasTwoBlocks /\ ClosersEndCleanly(parts)
    /\ IsPythonLabelled(BlockA) /\ ~IsPythonLabelled(BlockB)
    /\ BlockA.body # <<>> /\ BlockB.body # <<>>
    /\ cleaned = strip(dedent(BlockA.body))
    /\ cleaned # strip(dedent(BlockB.body))
    /\ cleaned # strip(dedent(text))

\* C9: for every reply text that is not blank, _clean_code returns a
\* non-empty string, also when the selected region is empty or blank.
C9_NonEmpty ==
    (clean_pc = "done" /\ (\E i \in 1..Len(text) : text[i] \notin Whitespace))
    => cleaned # <<>>

\* the lines of the one region of a reply generated with a single region
HasLines == Len(Blocks(parts)) = 1 /\ Blocks(parts)[1].lines # <<>>
RegionLines == Blocks(parts)[1].lines
NonBlank(l) == l.txt # <<>>
NonBlankIdx(ls) == {i \in 1..Len(ls) : NonBlank(ls[i])}
Max(S) == CHOOSE x \in S : \A y \in S : y <= x

\* a line with exactly 4 leading spaces removed
Minus4(l) == Spaces(l.ind - 4) \o l.txt

\* C10 as stated: when every line of the selected region shares a common
\* indent of 4 spaces, exactly 4 leading spaces are removed from each line.
C10_Dedent_EveryLine ==
    (clean_pc = "done" /\ HasLines
        /\ (\A i \in 1..Len(RegionLines) :
              NonBlank(RegionLines[i]) /\ RegionLines[i].ind >= 4)
        /\ (\E j \in 1..Len(RegionLines) : RegionLines[j].ind = 4))
    => cleaned = JoinLines([i \in 1..Len(RegionLines) |-> Minus4(RegionLines[i])])

\* C10 amended: when every line of the selected region is indented by at
\* least 4 spaces and its first non-blank line by exactly 4, _clean_code
\* removes exactly 4 leading spaces from every non-blank line, so nested
\* lines keep their relative indentation; blank lines are emptied and the
\* blank lines before the first and after the last non-blank line dropped.
C10_Dedent ==
    (clean_pc = "done" /\ HasLines
        /\ (\A i \in 1..Len(RegionLines) : RegionLines[i].ind >= 4)
        /\ NonBlankIdx(RegionLines) # {}
        /\ RegionLines[Min(NonBlankIdx(RegionLines))].ind = 4)
    => LET f == Min(NonBlankIdx(RegionLines))
           l == Max(NonBlankIdx(RegionLines))
       IN  cleaned = JoinLines([i \in 1..(l - f + 1) |->
                        IF NonBlank(RegionLines[f + i - 1])
                        THEN Minus4(RegionLines[f + i - 1])
                        ELSE <<>>])

C10_Witness ==
    /\ clean_pc = "done" /\ HasLines
    /\ Len(RegionLines) >= 2
    /\ RegionLines[1] = [ind |-> 4, txt |-> <<"a">>]
    /\ RegionLines[2] = [ind |-> 8, txt |-> <<"a">>]
    /\ SubSeq(cleaned, 1, 6) = <<"a", NL, SP, SP, SP, SP>>

-----------------------------------------------------------------------------
(* Properties of CodeExecutor.execute *)

Invoked == calls > 0

\* C1: every ExecutionResult execute returns has exactly one of result and
\* error set: success means a result that is not None and no error,
\* failure means an error and no result.
C1_MutuallyExclusive ==
    (Invoked /\ outcome.status = "returned")
    => /\ outcome.success => (outcome.result # NoneValue /\ outcome.error = NoError)
       /\ ~outcome.success => (outcome.error # NoError /\ outcome.result = NoneValue)

\* what the snippet raises, if anything, in the definition pass and when it
\* is run with the bindings in scope
DefinitionPass == Exec(snippet, EmptyScope)
ScriptPass == Exec(snippet, data_context)

\* C2: execute never raises to its caller; whatever the snippet raises, an
\* ExecutionResult with success = false is returned.
C2_NeverRaises ==
    Invoked => outcome.status = "returned"

\* C4: on whatever path execute is left, sys.stdout is the stream it was
\* right before the call.
C4_StdoutRestored ==
    Invoked => sys_stdout = stdout_before

\* the snippet holds a definition of the function plot and never rebinds
\* the name
DefinesPlot(snip) ==
    /\ snip.valid
    /\ \E i \in 1..Len(snip.stmts) : snip.stmts[i].op = "def"
    /\ \A i \in 1..Len(snip.stmts) : snip.stmts[i].op # "assign"
                                      \/ snip.stmts[i].name # "plot"

\* C5: a snippet that defines the entry function plot is never dispatched
\* through flat-script mode, wherever its other top-level statements stand.
C5_CallablePrecedence ==
    (Invoked /\ DefinesPlot(snippet)) => outcome.mode # "script"

\* C6 as stated: a snippet that runs without raising, defines no callable
\* plot and leaves no fig gets the missing-output text, and a snippet that
\* raised never gets it.
C6_MissingOutput_NeverAfterRaise ==
    (Invoked /\ outcome.status = "returned" /\ outcome.error = MissingOutputText)
    => (DefinitionPass.exc = "none" /\ ScriptPass.exc = "none")

\* C6 amended: a snippet that runs without raising, defines no callable plot
\* and leaves no fig yields success = false with the missing-output text,
\* which differs from every parse-failure and runtime-failure text; a
\* snippet whose script run raised, or whose definition pass raised anything
\* but a NameError, is never reported with the missing-output text (a
\* NameError of the definition pass alone is swallowed and may precede it).
C6_MissingOutput ==
    Invoked =>
       /\ (/\ DefinitionPass.exc = "none" /\ ScriptPass.exc = "none"
           /\ ~Callable(DefinitionPass.scope["plot"])
           /\ ScriptPass.scope["fig"] = Unbound)
          => (/\ outcome.status = "returned" /\ ~outcome.success
              /\ outcome.error = MissingOutputText)
       /\ (outcome.status = "returned" /\ outcome.error = MissingOutputText)
          => (/\ DefinitionPass.exc \in {"none", "NameError"}
              /\ ScriptPass.exc = "none"
              /\ outcome.mode = "script"
              /\ ScriptPass.scope["fig"] = Unbound)
       /\ (outcome.status = "returned" /\ ~outcome.success
            /\ (ScriptPass.exc # "none" \/ outcome.mode # "script"))
          => outcome.error # MissingOutputText

C6_Witness ==
    /\ Invoked
    /\ snippet.stmts = <<[op |-> "use", name |-> "px", arg |-> ""]>>
    /\ outcome.status = "returned" /\ ~outcome.success
    /\ outcome.error = MissingOutputText

-----------------------------------------------------------------------------
(* Properties of handle_query *)

Running == turn_pc \in {"generating", "executing", "repairing"}

C3_BudgetInv ==
    /\ execs <= retries + 1
    /\ count <= retries
    /\ (turn_pc = "exhausted" => (execs = retries + 1 /\ failures = execs))
    /\ (turn_pc \in Ended /\ turn_pc # "system_error" /\ execs >= 1
            /\ failures = execs)
       => (turn_pc = "exhausted" /\ execs = retries + 1)

Squeeze(t) == SelectSeq(t, LAMBDA c : c \notin Whitespace)

SecondExtraction == rewrap.done /\ clean_pc = "done"

\* C11 as stated: for every reply with exactly one delimited region,
\* extracting, re-wrapping in the same delimiter and extracting again yields
\* the text of the first extraction, modulo whitespace.
C11_Idempotent_AnyRegion ==
    SecondExtraction => Squeeze(cleaned) = Squeeze(rewrap.first)

\* C11 amended: for every reply with exactly one delimited region that is
\* not empty, extracting, re-wrapping the extracted text in the same
\* delimiter and extracting again yields the text of the first extraction,
\* modulo whitespace.
C11_Idempotent ==
    (SecondExtraction /\ rewrap.body # <<>>)
    => Squeeze(cleaned) = Squeeze(rewrap.first)

C11_Witness ==
    /\ SecondExtraction
    /\ rewrap.label = <<"python">>
    /\ rewrap.first = <<"a", NL, SP, SP, SP, SP, "a">>
    /\ cleaned = rewrap.first

-----------------------------------------------------------------------------
(* The repair loop of handle_query *)

ReportedFailure == outcome'.status = "returned" /\ ~outcome'.success
ReportedSuccess == outcome'.status = "returned" /\ outcome'.success

\* what one execution of the loop does with the report of the sandbox
C12_ExecutionStep ==
    turn_pc = "executing" =>
        /\ execs' = execs + 1
        /\ (ReportedFailure /\ count < retries) =>
                (turn_pc' = "repairing" /\ count' = count + 1)
        /\ (ReportedFailure /\ count >= retries) =>
                (turn_pc' = "exhausted" /\ count' = count)
        /\ ReportedSuccess => (turn_pc' = "success" /\ count' = count)

\* a repair is entered only by a failed execution below the maximum
C12_RepairOnlyBelowMax ==
    (turn_pc # "repairing" /\ turn_pc' = "repairing") =>
        /\ turn_pc = "executing"
        /\ ReportedFailure
        /\ count < retries
        /\ count' = count + 1

\* a turn that has ended makes no model call and no execution: the only step
\* left is the start of the next turn
C12_EndedIsFinal ==
    turn_pc \in Ended =>
        (turns' = turns + 1 /\ turn_pc' = "generating" /\ UNCHANGED exec_vars)

\* the fix request of a repair returns a candidate, which is executed next
C12_FixReturns ==
    turn_pc = "repairing" =>
        /\ turn_pc' = "executing"
        /\ request' = FixRequest(code, res.error, data_summaries)
        /\ UNCHANGED <<count, execs>>

\* the fix request of a repair either returns a candidate, which is executed
\* next, or raises, which ends the turn without another execution
C12_FixReturnsOrRaises ==
    turn_pc = "repairing" =>
        \/ /\ turn_pc' = "executing"
           /\ request' = FixRequest(code, res.error, data_summaries)
           /\ UNCHANGED <<count, execs>>
        \/ /\ turn_pc' = "system_error"
           /\ UNCHANGED <<count, execs, request, code>>

\* C12 as stated: a failed execution is followed by a whole repair (counter
\* plus one, one fix request, one re-execution) if and only if the counter
\* is below the maximum; at the maximum the turn ends exhausted; a success
\* ends the turn; the counter never exceeds the maximum.
C12_RepairLoop_AlwaysReexecutes ==
    /\ [](count <= retries)
    /\ [][C12_ExecutionStep /\ C12_RepairOnlyBelowMax /\ C12_EndedIsFinal
          /\ C12_FixReturns]_vars

\* C12 amended: after a failed execution the retry counter is incremented by
\* exactly one and one fix request is made if and only if the counter is
\* below the maximum (3); the candidate is executed again when that fix
\* request returns, and the turn ends without another execution when it
\* raises; a failed execution with the counter equal to the maximum ends the
\* turn exhausted; a successful execution ends the turn in success with no
\* further model call or execution; the counter never exceeds the maximum.
C12_RepairLoop ==
    /\ [](count <= retries)
    /\ [][C12_ExecutionStep /\ C12_RepairOnlyBelowMax /\ C12_EndedIsFinal
          /\ C12_FixReturnsOrRaises]_vars

C12_Witness ==
    /\ turn_pc = "exhausted"
    /\ count = retries
    /\ execs = retries + 1
    /\ request.kind = "fix"
    /\ ~res.success

-----------------------------------------------------------------------------
(* What a turn reports and records *)

\* the records a turn has appended to the history since its user message
RECURSIVE LastUserIndex(_, _)
LastUserIndex(ms, i) ==
    IF i = 0 THEN 0
    ELSE IF ms[i].role = "user" THEN i ELSE LastUserIndex(ms, i - 1)

TurnRecords ==
    LET u == LastUserIndex(messages, Len(messages))
    IN  SubSeq(messages, u + 1, Len(messages))

\* C13: when a turn ends in success after k >= 0 repair cycles, what
\* handle_query reports and records contains the working code, the result
\* artifact and the number k of repair cycles consumed.
C13_SuccessReport ==
    turn_pc = "success" =>
        /\ (\E i \in 1..Len(TurnRecords) : TurnRecords[i].code = code)
        /\ (\E i \in 1..Len(TurnRecords) : TurnRecords[i].plot = res.result)
        /\ \/ shown.holder.kind \in {"warning", "success"}
              /\ shown.holder.count = count
           \/ \E i \in 1..Len(TurnRecords) :
                TurnRecords[i].type = "repairs" /\ TurnRecords[i].text = <<count>>

\* the text t carries the whole of the text sub, unbroken
Contains(t, sub) ==
    \E i \in 0..(Len(t) - Len(sub)) : SubSeq(t, i + 1, i + Len(sub)) = sub

\* C14: when a turn ends exhausted, the user is shown the full error text of
\* the final execution and the final failing code, and the record appended
\* to the history carries that error text.
C14_ExhaustedReport ==
    turn_pc = "exhausted" =>
        /\ shown.holder.kind = "error"
        /\ Contains(shown.holder.text, res.error)
        /\ (\E i \in 1..Len(shown.extra) :
                shown.extra[i].kind = "code" /\ shown.extra[i].code = code)
        /\ Len(TurnRecords) = 1
        /\ TurnRecords[1].role = "assistant"
        /\ TurnRecords[1].type = "text"
        /\ Contains(TurnRecords[1].text, res.error)
        /\ res = outcome
        /\ res.error # NoError

C14_Witness ==
    /\ turn_pc = "exhausted"
    /\ res.error = MissingOutputText
    /\ code.valid
    /\ Contains(TurnRecords[1].text, MissingOutputText)

-----------------------------------------------------------------------------
(* Identifiers of the analysed files *)

IdentifierChars == AsciiLower \cup Digits \cup {"_"}

\* C15: for every non-empty file name sanitize_var_name returns a valid
\* identifier: the extension is removed, every character that is not an
\* ASCII letter or digit is replaced by an underscore, the result is
\* lower-case, begins with df_ and so never starts with a digit.
C15_ValidIdentifier ==
    name_pc = "done" =>
        LET stem == splitext(file_name).root
        IN  /\ IsPrefix(df_, var_name)
            /\ var_name[1] \notin Digits
            /\ (\A i \in 1..Len(var_name) : var_name[i] \in IdentifierChars)
            /\ Len(stem) <= Len(file_name)
            /\ (\E k \in {0, 3} :
                    /\ Len(var_name) = k + Len(stem)
                    /\ \A i \in 1..Len(stem) :
                        var_name[k + i] = IF stem[i] \in Alnum
                                          THEN LowerChar(stem[i]) ELSE "_")

C15_Witness ==
    /\ name_pc = "done"
    /\ file_name = <<"1", "A", ".", "a">>
    /\ var_name = <<"d", "f", "_", "1", "a">>


\* C16: within a session the identifiers of the analysed files are pairwise
\* distinct, so that the binding set holds one entry per analysed file and
\* no binding has overwritten another.
C16_DistinctIdentifiers ==
    /\ \A i, j \in 1..Len(data_summaries) :
            i # j => data_summaries[i].variable_name
                        # data_summaries[j].variable_name
    /\ \A i \in 1..Len(data_summaries) :
            (\E k \in 1..Len(session_context) :
                session_context[k].variable_name = data_summaries[i].variable_name)
            => (\E k \in 1..Len(session_context) :
                    session_context[k].file = data_summaries[i].name)


-----------------------------------------------------------------------------
(* The turn history *)

FilesOrModeChange ==
    \/ uploaded_filenames' # uploaded_filenames
    \/ last_use_full' # last_use_full

C17_Step ==
    /\ FilesOrModeChange =>
            /\ messages' = <<>>
            /\ last_generated_code' = NoCode
            /\ \A i \in 1..Len(data_summaries') :
                    data_summaries'[i].name \in uploaded_filenames'
    /\ ~FilesOrModeChange =>
            /\ IsPrefix(messages, messages')
            /\ (last_generated_code' # last_generated_code
                    => turn_pc' = "success")

\* C17: between two resets every step leaves the records of the history and
\* their order as they are and only appends at the end; a step that changes
\* the uploaded file set or the data-volume mode empties the history, the
\* last-accepted code and the data summaries of the files before it.
C17_AppendOnly == [][C17_Step]_vars

C17_Witness ==
    /\ turn_pc = "idle"
    /\ turns >= 1
    /\ res.success
    /\ last_use_full
    /\ uploaded_filenames # {}
    /\ data_summaries # <<>>
    /\ messages = <<>>
    /\ last_generated_code = NoCode


-----------------------------------------------------------------------------
(* Flat-script mode *)

\* the snippet holds no definition of a function plot
NoPlotDefinition(snip) ==
    \A i \in 1..Len(snip.stmts) : snip.stmts[i].op # "def"

\* the snippet run with every binding as a variable of the same name
BoundRun == Exec(snippet, data_context)

\* C18: a snippet that defines no callable plot is run with every binding
\* available as a variable of the same name; the invocation succeeds if and
\* only if that run did not raise and left a variable fig in its scope, and
\* the result is then the value of fig.
C18_FlatScript ==
    (Invoked /\ NoPlotDefinition(snippet)) =>
        /\ (outcome.status = "returned" /\ outcome.success)
           <=> (BoundRun.exc = "none" /\ BoundRun.scope["fig"] # Unbound)
        /\ outcome.success =>
                (outcome.result = BoundRun.scope["fig"] /\ outcome.mode = "script")


-----------------------------------------------------------------------------
(* The last-accepted code *)

EndsInSuccess == turn_pc # "success" /\ turn_pc' = "success"

C19_Step ==
    /\ EndsInSuccess =>
            /\ last_generated_code' = code
            /\ code' = code
            /\ snippet' = code
            /\ outcome'.success
    /\ ~EndsInSuccess => last_generated_code' = last_generated_code

\* C19: the step that ends a turn in success makes the candidate whose
\* execution just succeeded, the last one obtained in the turn, the
\* last-accepted code; no other step of a turn changes the last-accepted
\* code, so after a turn that ends exhausted it is what it was before the
\* turn.
C19_CandidateLifecycle == [][C19_Step]_vars

C19_Witness ==
    /\ turn_pc = "exhausted"
    /\ turns = 2
    /\ last_generated_code # NoCode
    /\ last_generated_code # code
    /\ request.kind = "fix"


-----------------------------------------------------------------------------
(* A model call that raises *)

ModelCallRaised == turn_pc = "system_error"

C20_Halted ==
    ModelCallRaised =>
        /\ TurnRecords = <<>>
        /\ shown.extra # <<>>
        /\ Last(shown.extra).kind = "error"
        /\ execs = count

C20_Step ==
    /\ (turn_pc # "system_error" /\ turn_pc' = "system_error") =>
            /\ turn_pc \in {"generating", "repairing"}
            /\ UNCHANGED <<messages, last_generated_code, code, request, execs>>
            /\ UNCHANGED exec_vars
    /\ ModelCallRaised =>
            /\ turns' = turns + 1
            /\ turn_pc' = "generating"
            /\ UNCHANGED <<last_generated_code, code>>
            /\ UNCHANGED exec_vars

\* C20: if a model call raises during a turn (generation, edit or a fix
\* request) the turn halts there: a message is shown, no execution and no
\* model call follows in that turn, no assistant record is appended to the
\* history and the last-accepted code is unchanged.
C20_ModelCallRaises == []C20_Halted /\ [][C20_Step]_vars

C20_Witness ==
    /\ ModelCallRaised
    /\ count = 2
    /\ execs = 2
    /\ turns = 2
    /\ last_generated_code # NoCode
    /\ Len(messages) = 4


-----------------------------------------------------------------------------
(* The fix requests of a turn *)

FixRequestSent == turn_pc = "repairing" /\ turn_pc' = "executing"

C21_Step ==
    FixRequestSent =>
        /\ request'.kind = "fix"
        /\ request'.code = code
        /\ code = snippet
        /\ outcome.status = "returned"
        /\ ~outcome.success
        /\ outcome.error # NoError
        /\ request'.error = outcome.error
        /\ request'.summaries = data_summaries

C22_Step ==
    (FixRequestSent /\ request.kind = "fix") => request'.error # request.error

\* C22: within one turn no fix request equals an earlier one: a fix request
\* differs from the fix request before it at least in its error text.
C22_NoIdenticalFixRequest == [][C22_Step]_vars


-----------------------------------------------------------------------------
(* The exceptions of the definition pass *)

\* C23: a NameError of the definition pass is never the reported outcome:
\* plot is called if the definition scope holds it, otherwise the snippet
\* is run again in script mode, and the outcome of that step is reported;
\* every other exception of the definition pass is reported as a failure.
C23_DefinitionPassExceptions ==
    Invoked =>
        /\ DefinitionPass.exc = "NameError" =>
                /\ outcome.mode =
                        IF Callable(DefinitionPass.scope["plot"])
                        THEN "callable" ELSE "script"
                /\ outcome = IF Callable(DefinitionPass.scope["plot"])
                             THEN ScaffoldMode(snippet, data_context,
                                               DefinitionPass.scope)
                             ELSE ScriptMode(snippet, data_context)
        /\ DefinitionPass.exc \notin {"none", "NameError"} =>
                /\ outcome.status = "returned"
                /\ ~outcome.success
                /\ outcome.error # NoError
                /\ outcome.mode = "none"


\* C24: every result with success = false that reports a failed parse or a
\* raised exception carries the full stack trace of that failure, never a
\* one-line message only, whether the parse, the entry function or the
\* script run failed.
C24_FullTrace ==
    (/\ Invoked
     /\ outcome.status = "returned"
     /\ ~outcome.success
     /\ outcome.error # MissingOutputText)
    => \E e \in ExceptionClasses : Contains(outcome.error, format_exc(e))


-----------------------------------------------------------------------------
(* The caller's bindings mapping *)

\* C25: execute leaves the caller's bindings mapping as it was: after any
\* invocation, in callable mode as in script mode, the mapping holds the
\* same identifiers bound to the same values as before the call.
C25_BindingsUnchanged ==
    Invoked => context_after = data_context


-----------------------------------------------------------------------------
(* Bindings that failed to load *)

TurnRunning == turn_pc \in {"generating", "executing", "repairing"}

Announced == {data_summaries[i].variable_name : i \in 1..Len(data_summaries)}
Bound == {session_context[i].variable_name : i \in 1..Len(session_context)}

\* C26: when loading a file fails no turn is run against the incomplete
\* binding set: in every turn that is run, each identifier announced to
\* the model through the data summaries is in the bindings mapping.
C26_NoTurnOnIncompleteBindings ==
    TurnRunning => Announced \subseteq Bound

-----------------------------------------------------------------------------
BothFinished == \A t \in Threads : thread_pc[t] = "finished"

\* C27: When two execute invocations overlap in time, then for every
\* interleaving of their save / redirect / restore steps, once both have
\* finished (each has set sys.stdout back and returned) the process's
\* standard output is again the stream it was before either started.
C27_StdoutRestoredAfterOverlap ==
    BothFinished => sys_stdout = 0

-----------------------------------------------------------------------------
(* Evaluations of the snippet in one invocation *)

\* C28: within one invocation, a snippet that defines a callable plot has
\* its top-level statements evaluated exactly once, whereas a snippet that
\* defines none and reaches script mode is evaluated a second time there,
\* after the definition pass.
C28_EvaluatedOnceOrTwice ==
    Invoked =>
        /\ DefinesPlot(snippet) => evals = 1
        /\ (NoPlotDefinition(snippet) /\ outcome.mode = "script") => evals = 2

-----------------------------------------------------------------------------
(* The output requirement of script mode *)

\* the snippet holds an assignment to fig at its top level
AssignsFig(snip) ==
    \E i \in 1..Len(snip.stmts) :
        snip.stmts[i].op = "assign" /\ snip.stmts[i].name = "fig"

-----------------------------------------------------------------------------
(* Name resolution inside plot *)

\* the snippet binds fig at top level, then defines a plot that refers to
\* that name, and the definition pass completes
PlotRefersToTopLevelName ==
    /\ DefinitionPass.exc = "none"
    /\ DefinitionPass.scope["fig"] # Unbound
    /\ DefinitionPass.scope["plot"] = "return_top_fig"

\* C30: in callable mode, every name the snippet binds at top level before
\* the call is resolvable inside plot when it is called; a reference from
\* plot to such a name does not fail name resolution.
C30_TopLevelNamesResolvable ==
    (Invoked /\ outcome.mode = "callable" /\ PlotRefersToTopLevelName)
    => ~(outcome.status = "returned"
            /\ outcome.error = PlotErrorText("NameError"))

====
